---- MODULE Spec2Model ----
(***************************************************************************)
(* Conflict analysis of the CDCL solver (src/src/analyze.cpp): derivation  *)
(* of the first-UIP clause by the backward walk over the trail, the       *)
(* bumping of analyzed variables in the VMTF queue, the time stamping of   *)
(* resolved clauses, and the back jump with the flipped literal.           *)
(*                                                                         *)
(* Literals are the non-zero integers -NVars..NVars, the literal 0 is the  *)
(* null literal of the code.  A clause object is a record; NoClause is    *)
(* the null clause pointer.  Pure statistics (moving averages, counters    *)
(* that nothing reads back) are left out; stats holds the counters that  *)
(* the code reads, bumped, bumplast, analyzed and conflicts, and the count *)
(* trailbumped of the batches sorted by trail position.                    *)
(***************************************************************************)
EXTENDS Integers, Sequences, FiniteSets

\* ------------------------------------------------------------------ bounds
NVars == 3
MaxClauseSize == 3
MaxConflicts == 2
MaxBumped == 10
MaxStamp == 2

\* 'INT_MAX', the reset value of 'Level::trail'.
INT_MAX == 2147483647

Vars == 1..NVars
Lits == {l \in -NVars..NVars : l # 0}

\* 'Internal::vidx': the variable index of a literal.
vidx(lit) == IF lit < 0 THEN -lit ELSE lit

VARIABLES
  vals,       \* vals[idx]: 1 true, -1 false, 0 unassigned
  vtab,       \* vtab[idx]: the 'Var' record: level, trail, reason
  trail,      \* the assigned literals in assignment order
  control,    \* control[l+1]: the 'Level' record of decision level l
  level,      \* the current decision level
  seen,       \* flags (idx).seen
  status,     \* flags (idx).status
  ltab,       \* ltab[idx]: the 'Link' of the variable: prev, next (0: none)
  queue,      \* the VMTF queue: first, last (0: none)
  btab,       \* btab[idx]: the bumped time stamp of the variable
  stats,      \* the counters bumped, bumplast, trailbumped, analyzed, conflicts
  opts,       \* the options: proof traced, keepsize, keepglue
  proof,      \* the clauses traced to the proof, in order
  clause,     \* the literals of the clause being learned
  analyzed,   \* the analyzed literals (those with the seen flag set)
  levels,     \* the decision levels that contribute to the conflict
  resolved,   \* the resolved clauses that carry a time stamp (handles)
  conflict,   \* the conflicting clause, or NoClause
  unsat,      \* the empty clause was learned
  iterating,  \* a unit was learned and its report is pending
  clauses,    \* the learned clause objects, as created
  pc,         \* the position in 'analyze' ("idle": outside of it)
  reason,     \* local of 'analyze': the clause resolved next (a handle)
  open,       \* local of 'analyze'
  uip,        \* local of 'analyze'
  i,          \* local of 'analyze': the trail iterator
  glue,       \* local of 'analyze'
  size        \* local of 'analyze'

vars == <<vals, vtab, trail, control, level, seen, status, ltab, queue, btab,
          stats, opts, proof, clause, analyzed, levels, resolved, conflict,
          unsat, iterating, clauses, pc, reason, open, uip, i, glue, size>>

\* ---------------------------------------------------------- clause objects
\* The null clause pointer.
NoClause ==
  [lits |-> <<>>, redundant |-> FALSE, hbr |-> FALSE, have_analyzed |-> FALSE,
   used |-> FALSE, analyzed |-> 0, glue |-> 0]

\* An irredundant clause of the formula with the literals ls.
Irredundant(ls) == [NoClause EXCEPT !.lits = ls]

Range(s) == {s[k] : k \in 1..Len(s)}

\* The value of a literal under vals: 1 true, -1 false, 0 unassigned.
val(lit) == IF lit < 0 THEN -vals[-lit] ELSE vals[lit]

\* 'Internal::var'.
var(lit) == vtab[vidx(lit)]

\* 'Internal::bumped'.
bumped(lit) == btab[vidx(lit)]

\* The 'Var' record of an unassigned variable.
NoVar == [level |-> 0, trail |-> 0, reason |-> NoClause]

\* 'Level::Level (decision)' followed by 'Level::reset'.
NewLevel(decision) == [decision |-> decision, seen |-> 0, trail |-> INT_MAX]

\* 'Level::reset'.
ResetLevel(l) == [l EXCEPT !.seen = 0, !.trail = INT_MAX]

\* ------------------------------------------------------ the VMTF queue
\* 'Queue::dequeue': unlink idx.  Q is the pair [ltab, queue].
dequeue(Q, idx) ==
  LET l  == Q.ltab[idx]
      L1 == IF l.prev # 0 THEN [Q.ltab EXCEPT ![l.prev].next = l.next]
                          ELSE Q.ltab
      q1 == IF l.prev # 0 THEN Q.queue ELSE [Q.queue EXCEPT !.first = l.next]
      L2 == IF l.next # 0 THEN [L1 EXCEPT ![l.next].prev = l.prev] ELSE L1
      q2 == IF l.next # 0 THEN q1 ELSE [q1 EXCEPT !.last = l.prev]
  IN [ltab |-> L2, queue |-> q2]

\* 'Queue::enqueue': link idx behind the last variable of the queue.
enqueue(Q, idx) ==
  LET last == Q.queue.last
      L1 == [Q.ltab EXCEPT ![idx].prev = last]
      L2 == IF last # 0 THEN [L1 EXCEPT ![last].next = idx] ELSE L1
      q1 == IF last # 0 THEN Q.queue ELSE [Q.queue EXCEPT !.first = idx]
  IN [ltab |-> [L2 EXCEPT ![idx].next = 0],
      queue |-> [q1 EXCEPT !.last = idx]]

\* The queue after 'Internal::init_queue': the variables in index order,
\* stamped 1..NVars.
InitLtab ==
  [idx \in Vars |-> [prev |-> idx - 1,
                     next |-> IF idx = NVars THEN 0 ELSE idx + 1]]

InitQueue == [first |-> 1, last |-> NVars]

\* ------------------------------------------------------------ the search
\* The clauses that the formula and the data base of learned clauses may
\* hold: sequences of 2..MaxClauseSize literals over distinct variables.
ClauseLits ==
  {ls \in UNION {[1..n -> Lits] : n \in 2..MaxClauseSize} :
     \A j, k \in 1..Len(ls) : j # k => vidx(ls[j]) # vidx(ls[k])}

\* The clause objects with the literals ls that 'propagate' may come
\* upon: the clauses of the formula.
ClauseObjects(ls) == {Irredundant(ls)}

\* 'learn_unit_clause' that traces the unit and forgets to fix the variable.
learn_unit_clause_not_fixed(T, lit) ==
  [T EXCEPT !.proof = IF opts.proof THEN Append(@, <<lit>>) ELSE @]

\* 'Internal::learn_unit_clause': the unit is traced and the variable fixed.
learn_unit_clause(T, lit) ==
  [T EXCEPT !.proof = IF opts.proof THEN Append(@, <<lit>>) ELSE @,
            !.status[vidx(lit)] = "FIXED"]

\* 'Internal::assign': lit becomes true at the current level with the
\* reason c; at level 0 it is a learned unit.
assign(T, lit, c) ==
  LET T1 == IF T.level = 0 THEN learn_unit_clause(T, lit) ELSE T
  IN [T1 EXCEPT !.vals[vidx(lit)] = IF lit < 0 THEN -1 ELSE 1,
                !.vtab[vidx(lit)] =
                   [level |-> T.level, trail |-> Len(T.trail), reason |-> c],
                !.trail = Append(@, lit)]

\* The part of the state that assignments and backtracking change.
SearchState ==
  [vals |-> vals, vtab |-> vtab, trail |-> trail, control |-> control,
   level |-> level, status |-> status, proof |-> proof]

SetSearchState(T) ==
  /\ vals' = T.vals
  /\ vtab' = T.vtab
  /\ trail' = T.trail
  /\ control' = T.control
  /\ level' = T.level
  /\ status' = T.status
  /\ proof' = T.proof

AnalysisVars ==
  <<seen, clause, analyzed, levels, resolved, unsat, iterating, clauses, pc,
    reason, open, uip, i, glue, size>>

QueueVars == <<ltab, queue, btab>>

Searching == pc = "idle" /\ ~unsat /\ conflict = NoClause

\* A unit clause of the formula is assigned at level 0.
Unit(lit) ==
  /\ Searching
  /\ level = 0
  /\ val(lit) = 0
  /\ SetSearchState(assign(SearchState, lit, NoClause))
  /\ UNCHANGED <<AnalysisVars, QueueVars, stats, opts, conflict>>

\* 'Internal::next_decision_variable': the unassigned variable nearest to
\* the end of the queue, searched from idx on (0: there is none).
RECURSIVE next_decision_variable(_)
next_decision_variable(idx) ==
  IF idx = 0 THEN 0
  ELSE IF vals[idx] = 0 THEN idx
  ELSE next_decision_variable(ltab[idx].prev)

\* 'Internal::decide': a new decision level is opened with the decision
\* lit, a literal (of either phase) of the next decision variable.
Decide(lit) ==
  /\ Searching
  /\ vidx(lit) = next_decision_variable(queue.last)
  /\ LET T == [SearchState EXCEPT !.level = level + 1,
                                  !.control = Append(@, NewLevel(lit))]
     IN SetSearchState(assign(T, lit, NoClause))
  /\ UNCHANGED <<AnalysisVars, QueueVars, stats, opts, conflict>>

\* 'Internal::propagate' finds the clause c unit: all its literals but the
\* first are false and the first, unassigned, is assigned with the reason c
\* ('propagate' moves the literal it forces to the front of the clause).
Propagate(c) ==
  /\ Searching
  /\ val(c.lits[1]) = 0
  /\ \A j \in 2..Len(c.lits) : val(c.lits[j]) < 0
  /\ SetSearchState(assign(SearchState, c.lits[1], c))
  /\ UNCHANGED <<AnalysisVars, QueueVars, stats, opts, conflict>>

\* 'Internal::propagate' finds all literals of the clause c false.  Above
\* level 0 the last propagated literal is one of the current level, so that
\* the clause has a literal of the current level.
FindConflict(c) ==
  /\ Searching
  /\ stats.conflicts < MaxConflicts
  /\ \A k \in 1..Len(c.lits) : val(c.lits[k]) < 0
  /\ \E k \in 1..Len(c.lits) : var(c.lits[k]).level = level
  /\ conflict' = c
  /\ stats' = [stats EXCEPT !.conflicts = @ + 1]
  /\ UNCHANGED <<vals, vtab, trail, control, level, status, proof,
                 AnalysisVars, QueueVars, opts>>

\* ---------------------------------------------------- conflict analysis
\* A clause pointer held by 'analyze' is a handle: 0 is the conflicting
\* clause, idx > 0 the reason of the variable idx, NoHandle the null pointer.
NoHandle == -1

\* The state that the backward walk reads and writes.
WalkState ==
  [seen |-> seen, clause |-> clause, control |-> control, levels |-> levels,
   analyzed |-> analyzed, open |-> open, vtab |-> vtab, conflict |-> conflict,
   resolved |-> resolved]

Deref(S, h) == IF h = 0 THEN S.conflict ELSE S.vtab[h].reason

SetUsed(S, h) ==
  IF h = 0 THEN [S EXCEPT !.conflict.used = TRUE]
  ELSE [S EXCEPT !.vtab[h].reason.used = TRUE]

\* 'save_as_resolved_clause' that tests for the time stamp before the hbr
\* flag: only a candidate is marked used.
save_as_resolved_clause_candidate(S, h) ==
  LET c == Deref(S, h)
  IN IF ~c.redundant THEN S
     ELSE IF ~c.have_analyzed THEN S
     ELSE LET S1 == IF c.hbr THEN SetUsed(S, h) ELSE S
          IN [S1 EXCEPT !.resolved = Append(@, h)]

\* 'Internal::save_as_resolved_clause'.
save_as_resolved_clause(S, h) ==
  LET c == Deref(S, h)
  IN IF ~c.redundant THEN S
     ELSE LET S1 == IF c.hbr THEN SetUsed(S, h) ELSE S
          IN IF ~c.have_analyzed THEN S1
             ELSE [S1 EXCEPT !.resolved = Append(@, h)]

\* 'analyze_literal' without the test of the seen flag.
analyze_literal_unseen(S, lit) ==
  IF var(lit).level = 0 THEN S
  ELSE LET v == var(lit)
           l == S.control[v.level + 1]
       IN [S EXCEPT
             !.clause = IF v.level < level THEN Append(@, lit) ELSE @,
             !.control[v.level + 1] =
                [l EXCEPT !.seen = @ + 1,
                          !.trail = IF v.trail < l.trail THEN v.trail ELSE @],
             !.levels = IF l.seen = 0 THEN Append(@, v.level) ELSE @,
             !.seen[vidx(lit)] = TRUE,
             !.analyzed = Append(@, lit),
             !.open = IF v.level = level THEN @ + 1 ELSE @]

\* 'analyze_literal' that adds the literals of the current level to the
\* clause too ('<=' for '<').
analyze_literal_current(S, lit) ==
  IF S.seen[vidx(lit)] THEN S
  ELSE IF var(lit).level = 0 THEN S
  ELSE LET v == var(lit)
           l == S.control[v.level + 1]
       IN [S EXCEPT
             !.clause = IF v.level <= level THEN Append(@, lit) ELSE @,
             !.control[v.level + 1] =
                [l EXCEPT !.seen = @ + 1,
                          !.trail = IF v.trail < l.trail THEN v.trail ELSE @],
             !.levels = IF l.seen = 0 THEN Append(@, v.level) ELSE @,
             !.seen[vidx(lit)] = TRUE,
             !.analyzed = Append(@, lit),
             !.open = IF v.level = level THEN @ + 1 ELSE @]

\* 'analyze_literal' without the return for a literal fixed at level 0.
analyze_literal_fixed(S, lit) ==
  IF S.seen[vidx(lit)] THEN S
  ELSE LET v == var(lit)
           l == S.control[v.level + 1]
       IN [S EXCEPT
             !.clause = IF v.level < level THEN Append(@, lit) ELSE @,
             !.control[v.level + 1] =
                [l EXCEPT !.seen = @ + 1,
                          !.trail = IF v.trail < l.trail THEN v.trail ELSE @],
             !.levels = IF l.seen = 0 THEN Append(@, v.level) ELSE @,
             !.seen[vidx(lit)] = TRUE,
             !.analyzed = Append(@, lit),
             !.open = IF v.level = level THEN @ + 1 ELSE @]

\* 'analyze_literal' that marks a literal seen and records it before the
\* test for level 0.
analyze_literal_marked(S, lit) ==
  IF S.seen[vidx(lit)] THEN S
  ELSE IF var(lit).level = 0
  THEN [S EXCEPT !.seen[vidx(lit)] = TRUE, !.analyzed = Append(@, lit)]
  ELSE LET v == var(lit)
           l == S.control[v.level + 1]
       IN [S EXCEPT
             !.clause = IF v.level < level THEN Append(@, lit) ELSE @,
             !.control[v.level + 1] =
                [l EXCEPT !.seen = @ + 1,
                          !.trail = IF v.trail < l.trail THEN v.trail ELSE @],
             !.levels = IF l.seen = 0 THEN Append(@, v.level) ELSE @,
             !.seen[vidx(lit)] = TRUE,
             !.analyzed = Append(@, lit),
             !.open = IF v.level = level THEN @ + 1 ELSE @]

\* 'analyze_literal' that registers the level at every contribution, not
\* only at the first ('if (l.seen++)' without the negation is never the
\* first; here the test is left out).
analyze_literal_registered(S, lit) ==
  IF S.seen[vidx(lit)] THEN S
  ELSE IF var(lit).level = 0 THEN S
  ELSE LET v == var(lit)
           l == S.control[v.level + 1]
       IN [S EXCEPT
             !.clause = IF v.level < level THEN Append(@, lit) ELSE @,
             !.control[v.level + 1] =
                [l EXCEPT !.seen = @ + 1,
                          !.trail = IF v.trail < l.trail THEN v.trail ELSE @],
             !.levels = Append(@, v.level),
             !.seen[vidx(lit)] = TRUE,
             !.analyzed = Append(@, lit),
             !.open = IF v.level = level THEN @ + 1 ELSE @]

\* 'Internal::analyze_literal' for a literal lit # 0.
analyze_literal(S, lit) ==
  IF S.seen[vidx(lit)] THEN S
  ELSE IF var(lit).level = 0 THEN S
  ELSE LET v == var(lit)
           l == S.control[v.level + 1]
       IN [S EXCEPT
             !.clause = IF v.level < level THEN Append(@, lit) ELSE @,
             !.control[v.level + 1] =
                [l EXCEPT !.seen = @ + 1,
                          !.trail = IF v.trail < l.trail THEN v.trail ELSE @],
             !.levels = IF l.seen = 0 THEN Append(@, v.level) ELSE @,
             !.seen[vidx(lit)] = TRUE,
             !.analyzed = Append(@, lit),
             !.open = IF v.level = level THEN @ + 1 ELSE @]

\* The loop of 'Internal::analyze_reason' from the k-th literal of ls on.
RECURSIVE analyze_literals(_, _, _, _)
analyze_literals(S, ls, lit, k) ==
  IF k > Len(ls) THEN S
  ELSE analyze_literals(
         IF ls[k] # lit THEN analyze_literal(S, ls[k]) ELSE S, ls, lit, k + 1)

\* 'analyze_reason' whose loop stops one literal early.
analyze_reason_short(S, lit, h) ==
  LET S1 == save_as_resolved_clause(S, h)
      ls == Deref(S1, h).lits
  IN analyze_literals(S1, SubSeq(ls, 1, Len(ls) - 1), lit, 1)

\* 'Internal::analyze_reason'.
analyze_reason(S, lit, h) ==
  LET S1 == save_as_resolved_clause(S, h)
  IN analyze_literals(S1, Deref(S1, h).lits, lit, 1)

\* The step back of the iterator without the loop over the literals that
\* are not seen ('uip = *--i' alone).
ScanBackOnce(sn, k) == k

\* 'while (!flags (uip = *--i).seen)': the position (1..k) of the last
\* literal among the first k of the trail whose variable is seen; 0 when
\* there is none and the iterator leaves the trail.
RECURSIVE ScanBack(_, _)
ScanBack(sn, k) ==
  IF k = 0 THEN 0
  ELSE IF sn[vidx(trail[k])] THEN k
  ELSE ScanBack(sn, k - 1)

\* 'reason = var (uip).reason' as a handle.
ReasonOf(lit) ==
  IF var(lit).reason = NoClause THEN NoHandle ELSE vidx(lit)

SetWalkState(S) ==
  /\ seen' = S.seen
  /\ clause' = S.clause
  /\ control' = S.control
  /\ levels' = S.levels
  /\ analyzed' = S.analyzed
  /\ vtab' = S.vtab
  /\ conflict' = S.conflict
  /\ resolved' = S.resolved

\* 'learn_empty_clause' that traces the clause and leaves 'unsat' alone.
learn_empty_clause_silent ==
  /\ proof' = IF opts.proof THEN Append(proof, <<>>) ELSE proof
  /\ unsat' = unsat

\* 'Internal::learn_empty_clause'.
learn_empty_clause ==
  /\ proof' = IF opts.proof THEN Append(proof, <<>>) ELSE proof
  /\ unsat' = TRUE

\* 'Internal::analyze' called at decision level 0.
AnalyzeUnsat ==
  /\ pc = "idle"
  /\ conflict # NoClause
  /\ ~unsat
  /\ level = 0
  /\ learn_empty_clause
  /\ UNCHANGED <<vals, vtab, trail, control, level, seen, status, ltab, queue,
                 btab, stats, opts, clause, analyzed, levels, resolved,
                 conflict, iterating, clauses, pc, reason, open, uip, i, glue,
                 size>>

\* 'Internal::analyze' called above level 0, up to the loop.
AnalyzeStart ==
  /\ pc = "idle"
  /\ conflict # NoClause
  /\ ~unsat
  /\ level # 0
  /\ reason' = 0
  /\ open' = 0
  /\ uip' = 0
  /\ i' = Len(trail)
  /\ pc' = "walk"
  /\ UNCHANGED <<vals, vtab, trail, control, level, seen, status, ltab, queue,
                 btab, stats, opts, proof, clause, analyzed, levels, resolved,
                 conflict, unsat, iterating, clauses, glue, size>>

\* One iteration of the loop of 'Internal::analyze'.  Without a reason the
\* code analyzes the literal 0 ("noreason"), and an iterator that finds no
\* seen literal leaves the trail ("underflow"): both are undefined behaviour
\* and end the model's run of the analysis.
WalkStep ==
  /\ pc = "walk"
  /\ IF reason = NoHandle
     THEN /\ pc' = "noreason"
          /\ UNCHANGED <<seen, clause, control, levels, analyzed, vtab,
                         conflict, resolved, reason, open, uip, i>>
     ELSE LET S == analyze_reason(WalkState, uip, reason)
              k == ScanBack(S.seen, i)
          IN /\ SetWalkState(S)
             /\ IF k = 0
                THEN /\ pc' = "underflow"
                     /\ open' = S.open
                     /\ UNCHANGED <<reason, uip, i>>
                ELSE /\ uip' = trail[k]
                     /\ i' = k - 1
                     /\ open' = S.open - 1
                     /\ IF S.open - 1 = 0
                        THEN pc' = "uip" /\ reason' = reason
                        ELSE pc' = "walk" /\ reason' = ReasonOf(trail[k])
  /\ UNCHANGED <<vals, trail, level, status, ltab, queue, btab, stats, opts,
                 proof, unsat, iterating, clauses, glue, size>>

\* ------------------------------------------------------------- sorting
Perms(n) ==
  {f \in [1..n -> 1..n] : \A a, b \in 1..n : a # b => f[a] # f[b]}

\* The results that 'std::sort' may give for the sequence s under a
\* comparator, given as the set Less of the pairs <<a, b>> with a less than
\* b: the rearrangements of s in which no element is less than one before
\* it.
SortedBy(s, Less) ==
  {p \in {[k \in 1..Len(s) |-> s[f[k]]] : f \in Perms(Len(s))} :
     \A j, k \in 1..Len(s) : j < k => <<p[k], p[j]>> \notin Less}

\* 'analyzed_earlier' on two resolved clauses.
analyzed_earlier(a, b) ==
  Deref(WalkState, a).analyzed < Deref(WalkState, b).analyzed

\* 'bumped_earlier' with the comparison turned around.
bumped_later(a, b) == bumped(a) > bumped(b)

\* 'bumped_earlier'.
bumped_earlier(a, b) == bumped(a) < bumped(b)

\* 'trail_bumped_smaller'.
trail_bumped_smaller(a, b) ==
  LET c == var(a).trail
      s == bumped(a) + c
      d == var(b).trail
      t == bumped(b) + d
  IN IF s < t THEN TRUE
     ELSE IF s > t THEN FALSE
     ELSE c < d

\* 'trail_larger': by descending level, the later assigned literal first
\* among those of one level.
trail_larger(a, b) ==
  \/ var(a).level > var(b).level
  \/ var(a).level = var(b).level /\ var(a).trail > var(b).trail

\* ------------------------------------------------- bumping of clauses
\* 'bump_clause' that stamps with the counter before its increment
\* ('stats.analyzed++' for '++stats.analyzed').
bump_clause_stale(C, h) ==
  LET t == C.stats.analyzed
      C1 == IF h = 0 THEN [C EXCEPT !.conflict.analyzed = t]
            ELSE [C EXCEPT !.vtab[h].reason.analyzed = t]
  IN [C1 EXCEPT !.stats.analyzed = t + 1]

\* 'Internal::bump_clause' on the clause with the handle h.  C is the
\* triple [vtab, conflict, stats].
bump_clause(C, h) ==
  LET t == C.stats.analyzed + 1
      C1 == IF h = 0 THEN [C EXCEPT !.conflict.analyzed = t]
            ELSE [C EXCEPT !.vtab[h].reason.analyzed = t]
  IN [C1 EXCEPT !.stats.analyzed = t]

RECURSIVE bump_clauses(_, _, _)
bump_clauses(C, rs, k) ==
  IF k > Len(rs) THEN C ELSE bump_clauses(bump_clause(C, rs[k]), rs, k + 1)

\* 'Internal::bump_resolved_clauses' on the sorted batch rs.
bump_resolved_clauses(rs) ==
  LET C == bump_clauses([vtab |-> vtab, conflict |-> conflict,
                         stats |-> stats], rs, 1)
  IN /\ vtab' = C.vtab
     /\ conflict' = C.conflict
     /\ stats' = C.stats
     /\ resolved' = <<>>

\* The glue without the level of the conflict.
GlueBelow == Len(levels) - 1

\* 'const int glue = (int) levels.size ()'.
Glue == Len(levels)

\* 'Internal::analyze' from the end of the loop to the minimization: the
\* negated first UIP completes the clause, the resolved clauses are bumped
\* and the glue is the number of levels found.
Learn ==
  /\ pc = "uip"
  /\ clause' = Append(clause, -uip)
  /\ \E rs \in SortedBy(resolved,
        {e \in Range(resolved) \X Range(resolved) : analyzed_earlier(e[1], e[2])}) :
       bump_resolved_clauses(rs)
  /\ glue' = Glue
  /\ size' = Len(clause) + 1
  /\ pc' = "minimize"
  /\ UNCHANGED <<vals, trail, control, level, seen, status, ltab, queue, btab,
                 opts, proof, analyzed, levels, unsat, iterating, clauses,
                 reason, open, uip, i>>

\* ------------------------------------------------------- minimization
\* The false literal lit is implied by the literals of the learned clause:
\* it is fixed, or (below the top of the recursion) seen, or all other
\* literals of its reason are implied.
RECURSIVE Removable(_, _)
Removable(lit, depth) ==
  LET v == var(lit)
  IN IF v.level = 0 \/ (depth > 0 /\ seen[vidx(lit)]) THEN TRUE
     ELSE IF v.reason = NoClause \/ v.level = level THEN FALSE
     ELSE \A k \in 1..Len(v.reason.lits) :
            \/ v.reason.lits[k] = -lit
            \/ Removable(v.reason.lits[k], depth + 1)

\* 'Internal::minimize_clause': the clauses a minimizer may leave, which
\* drops some of the removable literals.
MinimizedClauses ==
  {SelectSeq(clause, LAMBDA lit : lit \notin R) :
     R \in SUBSET {lit \in Range(clause) : Removable(lit, 0)}}

\* 'Internal::analyze': minimization of a clause of more than one literal;
\* minimize is the value of 'opts.minimize' at this call.
Minimize ==
  /\ pc = "minimize"
  /\ \E minimize \in BOOLEAN :
       IF size > 1 /\ minimize
       THEN \E c \in MinimizedClauses : clause' = c /\ size' = Len(c)
       ELSE UNCHANGED <<clause, size>>
  /\ pc' = "bump"
  /\ UNCHANGED <<vals, vtab, trail, control, level, seen, status, ltab, queue,
                 btab, stats, opts, proof, analyzed, levels, resolved,
                 conflict, unsat, iterating, clauses, reason, open, uip, i,
                 glue>>

\* ----------------------------------------------- bumping of variables
\* 'bump_variable' that enqueues the variable without unlinking it first.
bump_variable_linked(B, lit) ==
  LET idx == vidx(lit)
  IN IF B.ltab[idx].next = 0 THEN B
     ELSE LET Q == enqueue([ltab |-> B.ltab, queue |-> B.queue], idx)
              n == B.stats.bumped + 1
          IN [ltab |-> Q.ltab,
              queue |-> Q.queue,
              btab |-> [B.btab EXCEPT ![idx] = n],
              stats |-> [B.stats EXCEPT
                           !.bumped = n,
                           !.bumplast = IF var(idx).level = level THEN @ + 1
                                        ELSE @]]

\* 'bump_variable' without the return for the variable that is last in the
\* queue.
bump_variable_always(B, lit) ==
  LET idx == vidx(lit)
      Q == enqueue(dequeue([ltab |-> B.ltab, queue |-> B.queue], idx), idx)
      n == B.stats.bumped + 1
  IN [ltab |-> Q.ltab,
      queue |-> Q.queue,
      btab |-> [B.btab EXCEPT ![idx] = n],
      stats |-> [B.stats EXCEPT
                   !.bumped = n,
                   !.bumplast = IF var(idx).level = level THEN @ + 1 ELSE @]]

\* 'bump_variable' that stamps with the counter before its increment
\* ('stats.bumped++' for '++stats.bumped').
bump_variable_stale(B, lit) ==
  LET idx == vidx(lit)
  IN IF B.ltab[idx].next = 0 THEN B
     ELSE LET Q == enqueue(dequeue([ltab |-> B.ltab, queue |-> B.queue], idx),
                           idx)
              n == B.stats.bumped + 1
          IN [ltab |-> Q.ltab,
              queue |-> Q.queue,
              btab |-> [B.btab EXCEPT ![idx] = n - 1],
              stats |-> [B.stats EXCEPT
                           !.bumped = n,
                           !.bumplast = IF var(idx).level = level THEN @ + 1
                                        ELSE @]]

\* 'bump_variable' that stamps the variable and leaves it where it is in
\* the queue.
bump_variable_unmoved(B, lit) ==
  LET idx == vidx(lit)
  IN IF B.ltab[idx].next = 0 THEN B
     ELSE LET n == B.stats.bumped + 1
          IN [B EXCEPT
                !.btab[idx] = n,
                !.stats.bumped = n,
                !.stats.bumplast = IF var(idx).level = level THEN @ + 1
                                   ELSE @]

\* 'Internal::bump_variable'.  B is [ltab, queue, btab, stats].  The
\* variable that is last in the queue is left alone.  (The cursor to the
\* first unassigned variable, updated for an unassigned variable only, is
\* not part of the model: analysis bumps assigned variables.)
bump_variable(B, lit) ==
  LET idx == vidx(lit)
  IN IF B.ltab[idx].next = 0 THEN B
     ELSE LET Q == enqueue(dequeue([ltab |-> B.ltab, queue |-> B.queue], idx),
                           idx)
              n == B.stats.bumped + 1
          IN [ltab |-> Q.ltab,
              queue |-> Q.queue,
              btab |-> [B.btab EXCEPT ![idx] = n],
              stats |-> [B.stats EXCEPT
                           !.bumped = n,
                           !.bumplast = IF var(idx).level = level THEN @ + 1
                                        ELSE @]]

\* The loop of 'Internal::bump_variables' from the k-th literal of ls on.
RECURSIVE bump_literals(_, _, _)
bump_literals(B, ls, k) ==
  IF k > Len(ls) THEN B
  ELSE bump_literals(bump_variable(B, ls[k]), ls, k + 1)

\* 'percent (stats.bumplast, stats.bumped) > opts.trailbumplast'.
ManyBumpedLast(trailbumplast) ==
  stats.bumped # 0 /\ 100 * stats.bumplast > trailbumplast * stats.bumped

\* The condition under which 'Internal::bump_variables' sorts by the sum
\* of bumped stamp and trail position.  P holds the inputs of the call:
\* the options 'trailbump' and 'trailbumplast', and manyprops, the value of
\* 'relative (stats.propagations, stats.decisions) > opts.trailbumprops'.
TrailBump(P) ==
  P.trailbump /\ P.manyprops /\ ManyBumpedLast(P.trailbumplast)

\* The inputs of 'Internal::bump_variables'; 40 is the default percentage
\* of 'trailbumplast' and 0 its least value.
BumpInputs ==
  [trailbump : BOOLEAN, manyprops : BOOLEAN, trailbumplast : {0, 40}]

\* The results of the sort in 'Internal::bump_variables'.
SortedAnalyzed(P) ==
  IF TrailBump(P) THEN SortedBy(analyzed,
        {e \in Range(analyzed) \X Range(analyzed) : trail_bumped_smaller(e[1], e[2])})
  ELSE SortedBy(analyzed,
        {e \in Range(analyzed) \X Range(analyzed) : bumped_earlier(e[1], e[2])})

\* 'Internal::bump_variables' with the analyzed literals sorted as ls.
bump_variables(ls, P) ==
  LET st == IF TrailBump(P)
            THEN [stats EXCEPT !.trailbumped = @ + 1] ELSE stats
      B == bump_literals([ltab |-> ltab, queue |-> queue, btab |-> btab,
                          stats |-> st], ls, 1)
  IN /\ analyzed' = ls
     /\ ltab' = B.ltab
     /\ queue' = B.queue
     /\ btab' = B.btab
     /\ stats' = B.stats

\* 'Internal::analyze': the update of the decision heuristics.
Bump ==
  /\ pc = "bump"
  /\ \E P \in BumpInputs :
       \E ls \in SortedAnalyzed(P) : bump_variables(ls, P)
  /\ pc' = "backjump"
  /\ UNCHANGED <<vals, vtab, trail, control, level, seen, status, opts, proof,
                 clause, levels, resolved, conflict, unsat, iterating, clauses,
                 reason, open, uip, i, glue, size>>

\* The state of the queue that 'bump_variable' works on.
BumpState == [ltab |-> ltab, queue |-> queue, btab |-> btab, stats |-> stats]

\* Two calls of 'Internal::bump_variable' on the same literal, one right
\* after the other.
BumpTwice(lit) ==
  /\ stats.bumped < MaxBumped
  /\ LET B == bump_variable(bump_variable(BumpState, lit), lit)
     IN /\ ltab' = B.ltab
        /\ queue' = B.queue
        /\ btab' = B.btab
        /\ stats' = B.stats
  /\ UNCHANGED <<vals, vtab, trail, control, level, seen, status, opts, proof,
                 clause, analyzed, levels, resolved, conflict, unsat,
                 iterating, clauses, pc, reason, open, uip, i, glue, size>>

\* ------------------------------------------------------------ back jump
\* 'Internal::backtrack': the literals above new_level are unassigned and
\* the levels above it are closed.
backtrack(T, new_level) ==
  LET gone == {vidx(T.trail[k]) : k \in {j \in 1..Len(T.trail) :
                  T.vtab[vidx(T.trail[j])].level > new_level}}
  IN [T EXCEPT
        !.vals = [idx \in Vars |-> IF idx \in gone THEN 0 ELSE @[idx]],
        !.vtab = [idx \in Vars |-> IF idx \in gone THEN NoVar ELSE @[idx]],
        !.trail = SelectSeq(@, LAMBDA lit : vidx(lit) \notin gone),
        !.control = SubSeq(@, 1, new_level + 1),
        !.level = new_level]

\* 'Internal::new_learned_redundant_clause': the clause object with the
\* literals ls; a long clause of high glue carries a time stamp.
new_learned_redundant_clause(ls, g) ==
  LET stamped == Len(ls) > opts.keepsize /\ g > opts.keepglue
  IN [lits |-> ls, redundant |-> TRUE, hbr |-> FALSE,
      have_analyzed |-> stamped, used |-> FALSE,
      analyzed |-> IF stamped THEN stats.analyzed + 1 ELSE 0, glue |-> g]

\* The jump level taken from the first literal of the sorted clause.
JumpLevelFirst(ls) == var(ls[1]).level

\* 'const int jump = var (clause[1]).level' for the sorted clause ls.
JumpLevel(ls) == var(ls[2]).level

\* 'clear_seen' that goes through the learned clause, not the analyzed
\* literals.
clear_seen_clause(sn, ls) ==
  [idx \in Vars |-> IF idx \in {vidx(clause[k]) : k \in 1..Len(clause)}
                    THEN FALSE ELSE sn[idx]]

\* 'Internal::clear_seen' (without 'analyzed.clear ()').
clear_seen(sn, ls) ==
  [idx \in Vars |-> IF idx \in {vidx(ls[k]) : k \in 1..Len(ls)} THEN FALSE
                    ELSE sn[idx]]

\* 'control[*i]' in 'clear_levels': the levels of lv whose record lies
\* beyond the end of the control stack C.
BeyondControl(C, lv) == {l \in Range(lv) : l + 1 > Len(C)}

\* 'Internal::clear_levels' (without 'levels.clear ()') on the control
\* stack C: the records of the levels in lv that C still holds are reset.
\* For a level of BeyondControl the code resets the element beyond the end
\* of the vector, in the storage that the vector keeps when it shrinks: no
\* record of the stack changes.
clear_levels(C, lv) ==
  [k \in 1..Len(C) |-> IF k - 1 \in Range(lv) THEN ResetLevel(C[k]) ELSE C[k]]

\* 'Internal::analyze': the clean up, after the search state became T.
CleanUp(T) ==
  /\ SetSearchState([T EXCEPT !.control = clear_levels(@, levels)])
  /\ seen' = clear_seen(seen, analyzed)
  /\ analyzed' = <<>>
  /\ clause' = <<>>
  /\ levels' = <<>>
  /\ conflict' = NoClause

\* 'Internal::analyze' for a clause of more than one literal: the clause
\* is created from the literals sorted as ls, and drives the negated UIP
\* at the jump level.
LearnDriving(ls) ==
  LET c == new_learned_redundant_clause(ls, glue)
  IN /\ clauses' = Append(clauses, c)
     /\ stats' = IF c.have_analyzed THEN [stats EXCEPT !.analyzed = @ + 1]
                 ELSE stats
     /\ CleanUp(assign(backtrack(SearchState, JumpLevel(ls)), -uip, c))
     /\ UNCHANGED iterating

\* 'Internal::analyze' for a unit: no clause is created.
LearnUnit ==
  /\ iterating' = TRUE
  /\ CleanUp(assign(backtrack(SearchState, 0), -uip, NoClause))
  /\ UNCHANGED <<clauses, stats>>

\* 'Internal::analyze': back jump, flipped literal and clean up.
Backjump ==
  /\ pc = "backjump"
  /\ IF size > 1
     THEN \E ls \in SortedBy(clause,
        {e \in Range(clause) \X Range(clause) : trail_larger(e[1], e[2])}) : LearnDriving(ls)
     ELSE LearnUnit
  /\ pc' = "idle"
  /\ reason' = NoHandle
  /\ open' = 0
  /\ uip' = 0
  /\ i' = 0
  /\ glue' = 0
  /\ size' = 0
  /\ UNCHANGED <<ltab, queue, btab, opts, resolved, unsat>>

\* 'Internal::iterate': the learned unit is reported after propagation.
Iterate ==
  /\ Searching
  /\ iterating
  /\ iterating' = FALSE
  /\ UNCHANGED <<vals, vtab, trail, control, level, seen, status, ltab, queue,
                 btab, stats, opts, proof, clause, analyzed, levels, resolved,
                 conflict, unsat, clauses, pc, reason, open, uip, i, glue,
                 size>>

\* ------------------------------------------------------ specification
\* The options that the model keeps: a proof is traced or not, and the
\* least values of the thresholds 'keepsize' and 'keepglue'.  ('minimize',
\* 'trailbump' and 'trailbumplast' are read once in an analysis and are
\* inputs of that step.)
Options == [proof : BOOLEAN, keepsize : {2}, keepglue : {1}]

Init ==
  /\ vals = [idx \in Vars |-> 0]
  /\ vtab = [idx \in Vars |-> NoVar]
  /\ trail = <<>>
  /\ control = <<NewLevel(0)>>
  /\ level = 0
  /\ seen = [idx \in Vars |-> FALSE]
  /\ status = [idx \in Vars |-> "ACTIVE"]
  /\ ltab = InitLtab
  /\ queue = InitQueue
  /\ btab = [idx \in Vars |-> idx]
  /\ stats = [bumped |-> NVars, bumplast |-> 0, trailbumped |-> 0,
              analyzed |-> 0,
              conflicts |-> 0]
  /\ opts \in Options
  /\ proof = <<>>
  /\ clause = <<>>
  /\ analyzed = <<>>
  /\ levels = <<>>
  /\ resolved = <<>>
  /\ conflict = NoClause
  /\ unsat = FALSE
  /\ iterating = FALSE
  /\ clauses = <<>>
  /\ pc = "idle"
  /\ reason = NoHandle
  /\ open = 0
  /\ uip = 0
  /\ i = 0
  /\ glue = 0
  /\ size = 0

Next ==
  \/ \E lit \in Lits : Unit(lit)
  \/ \E lit \in Lits : Decide(lit)
  \/ \E ls \in ClauseLits : \E c \in ClauseObjects(ls) : Propagate(c)
  \/ \E ls \in ClauseLits : \E c \in ClauseObjects(ls) : FindConflict(c)
  \/ AnalyzeUnsat
  \/ AnalyzeStart
  \/ WalkStep
  \/ Learn
  \/ Minimize
  \/ Bump
  \/ Backjump
  \/ Iterate

Spec == Init /\ [][Next]_vars

\* -------------------------------------------- a store of learned clauses
\* The clause objects with the literals ls that a clause store may hold
\* after earlier search: the flags redundant and hbr in any combination,
\* the used flag not yet set, and on a redundant clause longer than
\* 'keepsize' possibly a time stamp t issued before (0: the clause has no
\* slot for a stamp), with a glue above 'keepglue'.
StoreObjects(ls) ==
  {[lits |-> ls, redundant |-> f[1], hbr |-> f[2], have_analyzed |-> f[3] # 0,
    used |-> FALSE, analyzed |-> f[3], glue |-> IF f[1] THEN 2 ELSE 0] :
     f \in {g \in BOOLEAN \X BOOLEAN \X (0..MaxStamp) :
              g[3] # 0 => g[1] /\ Len(ls) > opts.keepsize}}

\* The clause objects that the conflict analysis may meet: the conflict
\* and the reasons of the assigned variables.
Held == {conflict} \cup {vtab[idx].reason : idx \in Vars}

\* A time stamp is issued once: the stamp of c is on no clause held.
FreshStamp(c) ==
  c.have_analyzed => \A d \in Held : d.have_analyzed => d.analyzed # c.analyzed

\* 'Internal::propagate' finds a clause of the store unit, as long as a
\* conflict is within the bound.
PropagateStored ==
  /\ Searching
  /\ stats.conflicts < MaxConflicts
  /\ \E ls \in {l \in ClauseLits : val(l[1]) = 0} :
       \E c \in StoreObjects(ls) : FreshStamp(c) /\ Propagate(c)

\* 'Internal::propagate' finds a clause of the store falsified.
ConflictStored ==
  /\ Searching
  /\ stats.conflicts < MaxConflicts
  /\ \E ls \in {l \in ClauseLits : val(l[1]) < 0} :
       \E c \in StoreObjects(ls) : FreshStamp(c) /\ FindConflict(c)

\* The state after earlier search and a restart: nothing assigned, the
\* store holds clauses stamped up to MaxStamp, and one more conflict is
\* within the bound.  No proof is traced, and units and decisions take the
\* initial phase of a variable, true.
InitStore ==
  /\ vals = [idx \in Vars |-> 0]
  /\ vtab = [idx \in Vars |-> NoVar]
  /\ trail = <<>>
  /\ control = <<NewLevel(0)>>
  /\ level = 0
  /\ seen = [idx \in Vars |-> FALSE]
  /\ status = [idx \in Vars |-> "ACTIVE"]
  /\ ltab = InitLtab
  /\ queue = InitQueue
  /\ btab = [idx \in Vars |-> idx]
  /\ stats = [bumped |-> NVars, bumplast |-> 0, trailbumped |-> 0,
              analyzed |-> MaxStamp, conflicts |-> MaxConflicts - 1]
  /\ opts = [proof |-> FALSE, keepsize |-> 2, keepglue |-> 1]
  /\ proof = <<>>
  /\ clause = <<>>
  /\ analyzed = <<>>
  /\ levels = <<>>
  /\ resolved = <<>>
  /\ conflict = NoClause
  /\ unsat = FALSE
  /\ iterating = FALSE
  /\ clauses = <<>>
  /\ pc = "idle"
  /\ reason = NoHandle
  /\ open = 0
  /\ uip = 0
  /\ i = 0
  /\ glue = 0
  /\ size = 0

NextStore ==
  \/ \E idx \in Vars : Unit(idx)
  \/ \E idx \in Vars : Decide(idx)
  \/ PropagateStored
  \/ ConflictStored
  \/ AnalyzeUnsat
  \/ AnalyzeStart
  \/ WalkStep
  \/ Learn
  \/ Minimize
  \/ Bump
  \/ Backjump
  \/ Iterate

StoreSpec == InitStore /\ [][NextStore]_vars

\* The bumps of single variables, in any order, from the initial queue.
NextBump == \E lit \in Lits : BumpTwice(lit)

BumpSpec == Init /\ [][NextBump]_vars

\* ---------------------------------------------------------- properties
\* The variables of the queue from first to last, following the next
\* links of L for at most n steps.
RECURSIVE QueueFrom(_, _, _)
QueueFrom(L, idx, n) ==
  IF idx = 0 \/ n = 0 THEN <<>>
  ELSE <<idx>> \o QueueFrom(L, L[idx].next, n - 1)

QueueOf(L, q) == QueueFrom(L, q.first, NVars + 1)

\* The literals of the trail tr assigned at level l or below.
UpToLevel(tr, vt, l) == SelectSeq(tr, LAMBDA lit : vt[vidx(lit)].level <= l)

\* The level to jump to: the highest level of a literal of the learned
\* clause other than the negated UIP, 0 for a unit.
OtherLevels == {var(lit).level : lit \in Range(clause) \ {-uip}}

JumpTarget ==
  IF OtherLevels = {} THEN 0
  ELSE CHOOSE l \in OtherLevels : \A m \in OtherLevels : m <= l

\* The analysis is between the call of 'analyze' and its back jump, where
\* the trail is the one the conflict was found on.
Analyzing ==
  \/ pc \in {"walk", "uip", "minimize", "bump"}
  \/ pc = "idle" /\ conflict # NoClause /\ ~unsat /\ level > 0

\* C1: the clause that the backward walk and the negated first UIP make up
\* holds no literal twice, holds no literal together with its negation, and
\* all its literals are false under the trail before the back jump.
C1_LearnedClauseFalsified ==
  pc = "minimize" =>
    \A j, k \in 1..Len(clause) :
      /\ j # k => clause[j] # clause[k] /\ clause[j] # -clause[k]
      /\ val(clause[k]) < 0

C1_Witness == pc = "minimize" /\ Len(clause) = 3

\* C2 as stated: exactly one literal of the learned clause is at the jump
\* level, it is the negated UIP, and all others are strictly below the jump
\* level (levels of the trail before the back jump).
C2_OneLiteralAtJumpLevel ==
  pc = "backjump" =>
    /\ {lit \in Range(clause) : var(lit).level = JumpTarget} = {-uip}
    /\ \A lit \in Range(clause) \ {-uip} : var(lit).level < JumpTarget

\* C2 as amended: exactly one literal of the learned clause is at the level
\* of the conflict, it is the negated UIP, and all others are at levels
\* strictly below the level of the conflict, the jump level, which is the
\* highest of them, included.
C2_OneLiteralAtConflictLevel ==
  pc \in {"minimize", "bump", "backjump"} =>
    /\ {k \in 1..Len(clause) : var(clause[k]).level = level}
         = {Len(clause)}
    /\ clause[Len(clause)] = -uip
    /\ \A lit \in Range(clause) \ {-uip} :
         /\ var(lit).level < level
         /\ var(lit).level <= JumpTarget
    /\ JumpTarget < level

C2_Witness == pc = "backjump" /\ Len(clause) = 3 /\ JumpTarget = 2

\* C3: 'analyze' leaves the trail on which the conflict was found cut back
\* to the jump level and followed by the negated UIP alone, assigned at the
\* jump level; the reason of a non-unit is the clause object just created,
\* whose other literals are all still false.
C3_BackjumpAssignsFlipped ==
  /\ [][Analyzing => trail' = trail /\ level' = level]_vars
  /\ [][pc = "backjump" =>
          LET idx == vidx(uip)
              kept == UpToLevel(trail, vtab, JumpTarget)
          IN /\ trail' = Append(kept, -uip)
             /\ level' = JumpTarget
             /\ vals'[idx] = IF uip > 0 THEN -1 ELSE 1
             /\ vtab'[idx].level = JumpTarget
             /\ vtab'[idx].trail = Len(kept)
             /\ \A v \in Vars \ {idx} :
                  IF \E k \in 1..Len(kept) : vidx(kept[k]) = v
                  THEN vals'[v] = vals[v] /\ vtab'[v] = vtab[v]
                  ELSE vals'[v] = 0
             /\ Len(clause) > 1 =>
                  LET c == vtab'[idx].reason
                  IN /\ clauses' = Append(clauses, c)
                     /\ Len(c.lits) = Len(clause)
                     /\ Range(c.lits) = Range(clause)
                     /\ c.redundant
                     /\ \A lit \in Range(c.lits) \ {-uip} :
                          vals'[vidx(lit)] = IF lit > 0 THEN -1 ELSE 1]_vars

C3_Witness ==
  /\ pc = "idle"
  /\ conflict = NoClause
  /\ Len(clauses) = 1
  /\ Len(trail) = 3
  /\ var(trail[3]).reason = clauses[1]
  /\ Len(clauses[1].lits) = 3

\* C4: the glue is the number of distinct levels of the literals of the
\* learned clause before minimization and at least 1, and every clause
\* object created has more than one literal and a glue of at least 1.
C4_GlueCountsLevels ==
  /\ pc = "minimize" =>
       /\ glue = Cardinality({var(lit).level : lit \in Range(clause)})
       /\ Len(clause) > 1 => glue >= 1
  /\ pc \in {"bump", "backjump"} => glue >= 1
  /\ \A k \in 1..Len(clauses) :
       Len(clauses[k].lits) > 1 /\ clauses[k].glue >= 1

C4_Witness ==
  pc = "minimize" /\ Len(clause) = 3 /\ glue = 2 /\ Len(clauses) = 1

\* The scratch data of an analysis is clear.
Clean ==
  /\ \A idx \in Vars : ~seen[idx]
  /\ levels = <<>>
  /\ \A k \in 1..Len(control) : control[k] = ResetLevel(control[k])
  /\ analyzed = <<>>
  /\ resolved = <<>>
  /\ clause = <<>>

\* C5: every return of 'analyze' from a conflict above level 0 leaves no
\* seen flag set, no level in the list of levels, every level record reset,
\* the analyzed literals, the resolved clauses and the clause empty and the
\* conflict cleared, and so it stays until the next analysis begins.
C5_CleanAfterAnalysis ==
  /\ [][pc = "backjump" => (pc' = "idle" /\ Clean' /\ conflict' = NoClause)]_vars
  /\ [](pc = "idle" => Clean)

C5_Witness ==
  /\ pc = "idle"
  /\ conflict = NoClause
  /\ stats.conflicts = 2
  /\ stats.analyzed = 2
  /\ level > 0

\* C6: the queue is a permutation of all variables in every state: the
\* next links lead from the first variable through every variable once to
\* the last, and the prev links lead back.
C6_QueueIsPermutation ==
  LET q == QueueOf(ltab, queue)
  IN /\ Len(q) = NVars
     /\ Range(q) = Vars
     /\ queue.last = q[NVars]
     /\ ltab[q[NVars]].next = 0
     /\ \A k \in 1..NVars :
          ltab[q[k]].prev = IF k = 1 THEN 0 ELSE q[k - 1]

C6_Witness ==
  /\ stats.trailbumped = 1
  /\ stats.bumped >= NVars + 4
  /\ QueueOf(ltab, queue) # <<1, 2, 3>>
  /\ pc = "idle"

\* C7: 'bump_variables' leaves the queue, read from first to last, as the
\* variables outside the batch in their previous order followed by those of
\* the batch in ascending order of the key of the policy, taken before the
\* batch: the bumped stamp, or the sum of bumped stamp and trail position
\* with ties broken by trail position; the last is the one of maximal key.
C7_BatchOrder ==
  [][pc = "bump" =>
       LET S == {vidx(analyzed[k]) : k \in 1..Len(analyzed)}
           q == QueueOf(ltab, queue)
           q2 == QueueOf(ltab', queue')
           rest == SelectSeq(q, LAMBDA idx : idx \notin S)
           n == Len(rest)
           bytrail == stats'.trailbumped # stats.trailbumped
           key(idx) == IF bytrail THEN btab[idx] + vtab[idx].trail
                       ELSE btab[idx]
       IN /\ Len(q2) = NVars
          /\ SubSeq(q2, 1, n) = rest
          /\ {q2[k] : k \in (n + 1)..NVars} = S
          /\ \A j, k \in (n + 1)..NVars :
               j < k =>
                 \/ key(q2[j]) < key(q2[k])
                 \/ /\ key(q2[j]) = key(q2[k])
                    /\ bytrail => vtab[q2[j]].trail < vtab[q2[k]].trail
          /\ \A idx \in S : key(idx) <= key(q2[NVars])]_vars

C7_Witness ==
  /\ pc = "backjump"
  /\ stats.trailbumped = 1
  /\ Len(analyzed) = 2
  /\ var(analyzed[1]).trail > var(analyzed[2]).trail

\* C8: when the learned clause ends up with one literal, 'analyze' creates
\* no clause object, sets iterating, cuts the trail back to level 0 and
\* assigns the negated UIP there without a reason, which fixes the variable.
C8_UnitLearned ==
  [][pc = "backjump" /\ Len(clause) = 1 =>
       LET idx == vidx(uip)
           kept == UpToLevel(trail, vtab, 0)
       IN /\ clause = <<-uip>>
          /\ clauses' = clauses
          /\ iterating'
          /\ level' = 0
          /\ Len(control') = 1
          /\ trail' = Append(kept, -uip)
          /\ vals'[idx] = IF uip > 0 THEN -1 ELSE 1
          /\ vtab'[idx] =
               [level |-> 0, trail |-> Len(kept), reason |-> NoClause]
          /\ status'[idx] = "FIXED"]_vars

C8_Witness ==
  /\ pc = "idle"
  /\ iterating
  /\ level = 0
  /\ clauses = <<>>
  /\ stats.conflicts = 1
  /\ Len(trail) = 2
  /\ status[vidx(trail[2])] = "FIXED"
  /\ status[vidx(trail[1])] = "FIXED"

\* C9: 'analyze' called with a conflict at level 0 sets unsat, traces the
\* empty clause to the proof (if one is traced) and does nothing else: no
\* clause object, trail, queue, stamps, flags, level records and batches
\* as before.
C9_ConflictAtLevelZero ==
  [][(pc = "idle" /\ conflict # NoClause /\ ~unsat /\ level = 0) =>
       /\ unsat'
       /\ proof' = IF opts.proof THEN Append(proof, <<>>) ELSE proof
       /\ UNCHANGED <<vals, vtab, trail, control, level, seen, status, ltab,
                      queue, btab, stats, opts, clause, analyzed, levels,
                      resolved, conflict, iterating, clauses, pc, reason,
                      open, uip, i, glue, size>>]_vars

C9_Witness ==
  /\ unsat
  /\ level = 0
  /\ clauses = <<>>
  /\ stats.conflicts = 1
  /\ stats.bumped = NVars
  /\ opts.proof
  /\ proof[Len(proof)] = <<>>

\* The scenario of three variables: a decided at level 1, b at level 2, c
\* forced at level 2 by the clause of -a, -b and c, and the clause of -b
\* and -c in conflict.
Scenario(a, b, c) ==
  /\ trail = <<a, b, c>>
  /\ level = 2
  /\ var(a).level = 1 /\ var(a).reason = NoClause
  /\ var(b).level = 2 /\ var(b).reason = NoClause
  /\ var(c).level = 2
  /\ Range(var(c).reason.lits) = {-a, -b, c}
  /\ Range(conflict.lits) = {-b, -c}

\* C10: in the scenario 'analyze' walks back through c to the first UIP b,
\* learns the clause of -a and -b with glue 2, jumps to level 1 where only
\* a remains, and assigns -b there with the learned clause as its reason.
C10_ThreeVariableScenario ==
  [][\A a, b, c \in Lits :
       Scenario(a, b, c) /\ pc = "backjump" =>
         /\ uip = b
         /\ seen[vidx(c)]
         /\ -c \in Range(analyzed)
         /\ Len(clause) = 2 /\ Range(clause) = {-a, -b}
         /\ glue = 2
         /\ level' = 1
         /\ trail' = <<a, -b>>
         /\ vtab'[vidx(b)].level = 1
         /\ vtab'[vidx(b)].reason.lits = <<-b, -a>>
         /\ vtab'[vidx(b)].reason.glue = 2
         /\ clauses' = Append(clauses, vtab'[vidx(b)].reason)]_vars

C10_Witness ==
  \E a, b, c \in Lits :
    Scenario(a, b, c) /\ pc = "backjump" /\ uip = b /\ clause = <<-a, -b>>

\* C11: two bumps of the same variable in immediate succession leave the
\* queue a permutation of all variables without a duplicate, in the order
\* that the first bump alone gives, with that variable last (at the front of
\* the decision order) and its stamp equal to the bump counter, which no
\* stamp exceeds; the variable at the front carries the counter's value in
\* every state, so that the same holds when both bumps leave it alone.
C11_DoubleBump ==
  /\ [][\A lit \in Lits :
          BumpTwice(lit) =>
            LET idx == vidx(lit)
                B1 == bump_variable(BumpState, lit)
                q2 == QueueOf(ltab', queue')
            IN /\ q2 = QueueOf(B1.ltab, B1.queue)
               /\ Len(q2) = NVars
               /\ Range(q2) = Vars
               /\ q2[NVars] = idx
               /\ queue'.last = idx
               /\ btab'[idx] = stats'.bumped
               /\ \A other \in Vars : btab'[other] <= stats'.bumped]_vars
  /\ [](btab[queue.last] = stats.bumped)

C11_Witness ==
  /\ stats.bumped = NVars + 3
  /\ QueueOf(ltab, queue) = <<3, 1, 2>>
  /\ btab[2] = stats.bumped

\* C12: when the clause has more than one literal at the back jump, every
\* order in which the sort may leave it has the negated UIP first, the only
\* literal at the level of the conflict, and the level of its second
\* literal, the jump level, is the highest level of the other literals, at
\* least 1 and below the level of the conflict.
C12_JumpLevel ==
  pc = "backjump" /\ size > 1 =>
    /\ size = Len(clause)
    /\ \A ls \in SortedBy(clause,
            {e \in Range(clause) \X Range(clause) :
               trail_larger(e[1], e[2])}) :
         /\ ls[1] = -uip
         /\ \A k \in 1..Len(ls) : var(ls[k]).level = level <=> k = 1
         /\ \A k \in 2..Len(ls) : var(ls[k]).level <= JumpLevel(ls)
         /\ JumpLevel(ls) = JumpTarget
         /\ 1 <= JumpLevel(ls)
         /\ JumpLevel(ls) < level

C12_Witness ==
  /\ pc = "backjump"
  /\ Len(clause) = 3
  /\ level = 2
  /\ \A lit \in Range(clause) \ {-uip} : var(lit).level = 1

\* C13 as stated: 'bump_variables' raises the bump counter by the number of
\* the analyzed literals, one for every bump, and leaves every variable of
\* the batch with a stamp greater than the one it had.
C13_EveryBumpCounts ==
  [][pc = "bump" =>
       /\ stats'.bumped = stats.bumped + Len(analyzed)
       /\ \A lit \in Range(analyzed) : bumped(lit)' > bumped(lit)]_vars

\* C13 as amended: a bump of a variable that is not last in the queue
\* raises the counter by one and stamps the variable with the new value; a
\* bump of the variable that is last changes nothing.  Of a batch only the
\* first variable bumped can be last in the queue, so 'bump_variables'
\* raises the counter by the size of the batch, less one when the first is
\* last in the queue and keeps its stamp, the value of the counter before;
\* all others get the next values of the counter in the order of the
\* bumps, each above every stamp there was.
C13_BumpCountsUnlessLast ==
  [][pc = "bump" =>
       LET ls == analyzed'
           skip == IF ltab[vidx(ls[1])].next = 0 THEN 1 ELSE 0
       IN /\ Len(ls) = Len(analyzed) /\ Range(ls) = Range(analyzed)
          /\ stats'.bumped = stats.bumped + Len(ls) - skip
          /\ \A k \in 1..Len(ls) :
               IF k = 1 /\ skip = 1
               THEN /\ btab'[vidx(ls[k])] = stats.bumped
                    /\ btab[vidx(ls[k])] = stats.bumped
               ELSE /\ btab'[vidx(ls[k])] = stats.bumped + k - skip
                    /\ \A idx \in Vars : btab'[vidx(ls[k])] > btab[idx]]_vars

C13_Witness ==
  /\ pc = "backjump"
  /\ stats.conflicts = 1
  /\ Len(analyzed) = 1
  /\ stats.bumped = NVars

\* The time stamp of the clause with the handle h, given the conflict c
\* and the table vt of the variables.
StampOf(c, vt, h) == IF h = 0 THEN c.analyzed ELSE vt[h].reason.analyzed

\* C14: the commit of the batch of resolved clauses gives every candidate
\* a stamp above the counter of stamps, which no stamp of a clause held
\* exceeds, the new stamps of two candidates are ordered as their previous
\* ones, they are the next values of the counter, one for every candidate,
\* the clauses outside the batch keep theirs, and the batch is empty
\* afterwards.
C14_ResolvedClausesStamped ==
  /\ [](\A c \in Held : c.analyzed <= stats.analyzed)
  /\ [][pc = "uip" =>
          LET old(h) == StampOf(conflict, vtab, h)
              new(h) == StampOf(conflict', vtab', h)
              batch == Range(resolved)
          IN /\ \A h \in batch :
                  /\ new(h) > stats.analyzed
                  /\ new(h) <= stats'.analyzed
                  /\ \A c \in Held : new(h) > c.analyzed
             /\ \A g, h \in batch :
                  /\ old(g) < old(h) => new(g) < new(h)
                  /\ g # h => new(g) # new(h)
             /\ stats'.analyzed = stats.analyzed + Len(resolved)
             /\ Cardinality(batch) = Len(resolved)
             /\ \A h \in (0..NVars) \ batch : new(h) = old(h)
             /\ resolved' = <<>>]_vars

C14_Witness ==
  /\ pc = "minimize"
  /\ conflict.analyzed = MaxStamp + 2
  /\ \E idx \in Vars : vtab[idx].reason.analyzed = MaxStamp + 1
  /\ stats.analyzed = MaxStamp + 2

\* C15 as stated: every clause with the hbr flag that the walk offers to
\* 'save_as_resolved_clause' has its used flag set afterwards, redundant or
\* not, with a time stamp or not.
C15_HbrAlwaysUsed ==
  [][pc = "walk" /\ reason # NoHandle =>
       (Deref(WalkState, reason).hbr =>
          IF reason = 0 THEN conflict'.used ELSE vtab'[reason].reason.used)]_vars

\* C15 as amended: a redundant clause with the hbr flag that the walk
\* offers has its used flag set afterwards, with a time stamp (as a
\* candidate of the batch) or without; an irredundant clause is left as it
\* is, whatever its hbr flag, and is no candidate; a clause without the hbr
\* flag keeps its used flag.
C15_RedundantHbrUsed ==
  [][pc = "walk" /\ reason # NoHandle =>
       LET c == Deref(WalkState, reason)
           d == IF reason = 0 THEN conflict' ELSE vtab'[reason].reason
       IN /\ c.redundant /\ c.hbr => d = [c EXCEPT !.used = TRUE]
          /\ ~c.redundant \/ ~c.hbr => d = c
          /\ resolved' = IF c.redundant /\ c.have_analyzed
                         THEN Append(resolved, reason) ELSE resolved]_vars

C15_Witness ==
  /\ pc = "uip"
  /\ conflict.redundant /\ conflict.hbr /\ conflict.used
  /\ ~conflict.have_analyzed
  /\ \E idx \in Vars :
       LET c == vtab[idx].reason
       IN c.redundant /\ c.hbr /\ c.used /\ c.have_analyzed

\* The literals of the clause that the next step of the walk resolves,
\* other than the pivot.
Others == Range(Deref(WalkState, reason).lits) \ {uip}

\* C16 as stated: after a step of the walk every literal of the resolved
\* clause other than the pivot is seen, and those not seen before are in
\* the batch of analyzed literals, the literals of level 0 included.
C16_AllLiteralsMarked ==
  [][pc = "walk" /\ reason # NoHandle =>
       \A lit \in Others :
         /\ seen'[vidx(lit)]
         /\ ~seen[vidx(lit)] => lit \in Range(analyzed')]_vars

\* C16 as amended: a step of the walk marks seen and records as analyzed
\* exactly the literals of the resolved clause, other than the pivot, that
\* are not seen yet and are above level 0; of these the ones at the level
\* of the conflict are counted in open, from which the step takes one for
\* the next pivot.  A literal of level 0 is neither marked nor recorded,
\* does not enter the clause and leaves the record of level 0 and the list
\* of levels alone.
C16_LiteralsAboveZeroMarked ==
  [][pc = "walk" /\ reason # NoHandle =>
       LET new == {lit \in Others : ~seen[vidx(lit)] /\ var(lit).level > 0}
           fixed == {lit \in Others : var(lit).level = 0}
       IN /\ \A idx \in Vars :
               seen'[idx] <=> (seen[idx] \/ idx \in {vidx(lit) : lit \in new})
          /\ Range(analyzed') = Range(analyzed) \cup new
          /\ Len(analyzed') = Len(analyzed) + Cardinality(new)
          /\ SubSeq(analyzed', 1, Len(analyzed)) = analyzed
          /\ open' = open - 1
                + Cardinality({lit \in new : var(lit).level = level})
          /\ \A lit \in fixed :
               /\ ~seen'[vidx(lit)]
               /\ lit \notin Range(analyzed')
               /\ lit \notin Range(clause')
          /\ control'[1] = control[1]
          /\ 0 \notin Range(levels')]_vars

C16_Witness ==
  /\ pc = "uip"
  /\ Len(analyzed) = 2
  /\ \E lit \in Range(conflict.lits) :
       var(lit).level = 0 /\ ~seen[vidx(lit)] /\ lit \notin Range(analyzed)

\* C17: at the end of the walk, for every level from 1 to the level of the
\* conflict, the list of levels holds the level once if an analyzed literal
\* is at that level and not at all otherwise, the seen counter of its
\* record is the number of analyzed literals at that level, and the trail
\* position of the record is the least trail position of these literals
\* (the reset value when there is none); the list holds no other level.
C17_LevelBookkeeping ==
  pc = "uip" =>
    /\ Range(levels) \subseteq 1..level
    /\ Len(control) = level + 1
    /\ \A l \in 1..level :
         LET at == {lit \in Range(analyzed) : var(lit).level = l}
             rec == control[l + 1]
         IN /\ Cardinality({k \in 1..Len(levels) : levels[k] = l})
                 = IF at = {} THEN 0 ELSE 1
            /\ rec.seen = Cardinality(at)
            /\ \A lit \in at : rec.trail <= var(lit).trail
            /\ IF at = {} THEN rec.trail = INT_MAX
               ELSE \E lit \in at : rec.trail = var(lit).trail

C17_Witness ==
  /\ pc = "uip"
  /\ levels = <<2, 1>>
  /\ control[3].seen = 2
  /\ control[3].trail = 1
  /\ control[2].seen = 1

\* C18: every level record that 'analyze' reads or writes is the record of
\* a level from 0 to the current level at that moment: the walk registers
\* only such levels, and the levels whose records the clean up resets
\* after the back jump are all within the control stack as it is then.
C18_ActiveLevelsOnly ==
  /\ [](pc \in {"walk", "uip", "minimize", "bump", "backjump"} =>
          /\ Len(control) = level + 1
          /\ BeyondControl(control, levels) = {})
  /\ [][pc = "backjump" =>
          /\ Len(control') = level' + 1
          /\ BeyondControl(control', levels) = {}]_vars

\* C19: the walk of a conflict above level 0 ends with open = 0 at a seen
\* literal of the level of the conflict: the iterator stays within the
\* trail and moves back at every step, open stays above 0 as long as the
\* walk goes on, the clause resolved next is the reason of the pivot, which
\* has one, and the walk neither leaves the trail nor analyzes the literal
\* 0 for want of a reason.
C19_WalkTerminates ==
  /\ [](pc \notin {"underflow", "noreason"})
  /\ [](pc = "walk" =>
          /\ 0 <= i /\ i <= Len(trail)
          /\ open >= 0
          /\ reason # NoHandle
          /\ Deref(WalkState, reason) # NoClause
          /\ uip # 0 => open > 0 /\ reason = vidx(uip))
  /\ [](pc = "uip" =>
          /\ open = 0
          /\ 0 <= i /\ i < Len(trail)
          /\ uip = trail[i + 1]
          /\ seen[vidx(uip)]
          /\ var(uip).level = level)
  /\ [][pc = "walk" => i' < i /\ pc' \in {"walk", "uip"}]_vars

C19_Witness ==
  /\ pc = "uip"
  /\ i = 0
  /\ Len(trail) = 3
  /\ Len(analyzed) = 3

\* C20: in every state the stamps of the variables increase strictly
\* along the queue from first to last, so that no two are equal, and the
\* stamp of the last variable, the front of the decision order, is the
\* value of the bump counter.
C20_StampsIncrease ==
  LET q == QueueOf(ltab, queue)
  IN /\ Len(q) = NVars
     /\ \A j, k \in 1..NVars : j < k => btab[q[j]] < btab[q[k]]
     /\ btab[queue.last] = stats.bumped
     /\ queue.last = q[NVars]

C20_Witness ==
  /\ pc = "backjump"
  /\ stats.conflicts = 2
  /\ stats.trailbumped = 1
  /\ Len(analyzed) = 3
  /\ QueueOf(ltab, queue) # <<1, 2, 3>>

====
